---- MODULE Spec2Model ----
(***************************************************************************)
(* The packaging descriptor setup.py of ajenti-dev-multitool, and its      *)
(* evaluation by the Python interpreter: one import, then a single         *)
(* setup(...) call whose keyword arguments are evaluated left to right.    *)
(* The repository holds four successive revisions of the descriptor; the   *)
(* one present in the source tree is the revision of version 1.0.18, the   *)
(* three others are known from the specification's table of field values.  *)
(*                                                                         *)
(* String values that are only ever compared are TLA+ strings.  A version  *)
(* is the sequence of its characters, so that its dotted components are    *)
(* obtained by parsing and not by a table.                                 *)
(***************************************************************************)
EXTENDS Naturals, Sequences, FiniteSets

VARIABLES rev, pc, kwargs, items, calls, log

vars == <<rev, pc, kwargs, items, calls, log>>

Range(s) == {s[i] : i \in 1..Len(s)}

-----------------------------------------------------------------------------
(* The descriptor of the source tree, setup.py, field by field.            *)

SrcNameTypo == "ajenti-dev-multitol"
SrcName == "ajenti-dev-multitool"

SrcVersionBumped == <<"1", ".", "0", ".", "1", "9">>
SrcVersionShort == <<"1", ".", "0", ".", "8">>
SrcVersion == <<"1", ".", "0", ".", "1", "8">>

SrcInstallRequiresNoGevent == <<"coloredlogs", "pyyaml">>
SrcInstallRequiresNoYaml == <<"coloredlogs", "gevent">>
SrcInstallRequires == <<"coloredlogs", "pyyaml", "gevent">>

SrcDescription == "-"

SrcAuthor == "Eugene Pankov"

SrcAuthorEmailOther == "e@ajenti.com"
SrcAuthorEmail == "e@ajenti.org"

SrcUrl == "http://ajenti.org/"

SrcScriptsTwo == <<"ajenti-dev-multitool", "ajenti-dev-multitool.py">>
SrcScripts == <<"ajenti-dev-multitool">>

SrcDescriptor ==
    [name             |-> SrcName,
     version          |-> SrcVersion,
     install_requires |-> SrcInstallRequires,
     description      |-> SrcDescription,
     author           |-> SrcAuthor,
     author_email     |-> SrcAuthorEmail,
     url              |-> SrcUrl,
     scripts          |-> SrcScripts]

(* The keywords of the setup(...) call in the order they are written,      *)
(* which is the order Python evaluates them in.                            *)
KeywordOrder ==
    <<"name", "version", "install_requires", "description",
      "author", "author_email", "url", "scripts">>

(* The keywords whose value is a list display [...], built item by item.   *)
ListKeywords == {"install_requires", "scripts"}

-----------------------------------------------------------------------------
(* The three revisions that are not in the source tree, from the table of  *)
(* observed field values: name, scripts and the descriptive metadata are   *)
(* constant, version and install_requires vary.                            *)

Rev1Descriptor ==
    [name             |-> "ajenti-dev-multitool",
     version          |-> <<"1", ".", "0", ".", "1", "4">>,
     install_requires |-> <<"coloredlogs", "pyyaml">>,
     description      |-> "-",
     author           |-> "Eugene Pankov",
     author_email     |-> "e@ajenti.org",
     url              |-> "http://ajenti.org/",
     scripts          |-> <<"ajenti-dev-multitool">>]

Rev3Descriptor ==
    [name             |-> "ajenti-dev-multitool",
     version          |-> <<"0", ".", "1", "3">>,
     install_requires |-> <<"pyyaml">>,
     description      |-> "-",
     author           |-> "Eugene Pankov",
     author_email     |-> "e@ajenti.org",
     url              |-> "http://ajenti.org/",
     scripts          |-> <<"ajenti-dev-multitool">>]

Rev4Descriptor ==
    [name             |-> "ajenti-dev-multitool",
     version          |-> <<"1", ".", "1", ".", "8">>,
     install_requires |-> <<"coloredlogs", "pyyaml", "gevent">>,
     description      |-> "-",
     author           |-> "Eugene Pankov",
     author_email     |-> "e@ajenti.org",
     url              |-> "http://ajenti.org/",
     scripts          |-> <<"ajenti-dev-multitool">>]

(* The revisions in the order the specification lists them; the second is  *)
(* the descriptor of the source tree (version 1.0.18).                     *)
RevisionTable == <<Rev1Descriptor, SrcDescriptor, Rev3Descriptor, Rev4Descriptor>>

NumRevisions == Len(RevisionTable)

Revisions == 1..NumRevisions

SrcRevision == 2

Descriptor(r) == RevisionTable[r]

-----------------------------------------------------------------------------
(* Evaluation of the descriptor that is checked out.                       *)

NoKwargs == [k \in {} |-> ""]

Bound == DOMAIN kwargs

NumBound == Cardinality(Bound)

AllBound == NumBound = Len(KeywordOrder)

NextKeyword == KeywordOrder[NumBound + 1]

NextValue == Descriptor(rev)[NextKeyword]

Init ==
    /\ rev \in Revisions
    /\ pc = "import"
    /\ kwargs = NoKwargs
    /\ items = <<>>
    /\ calls = 0
    /\ log = <<>>

(* from distutils.core import setup *)
Import ==
    /\ pc = "import"
    /\ pc' = "args"
    /\ UNCHANGED <<rev, kwargs, items, calls, log>>

(* One more item of the list display of the keyword being evaluated.       *)
EvalItem ==
    /\ pc = "args"
    /\ ~AllBound
    /\ NextKeyword \in ListKeywords
    /\ Len(items) < Len(NextValue)
    /\ items' = Append(items, NextValue[Len(items) + 1])
    /\ UNCHANGED <<rev, pc, kwargs, calls, log>>

(* The next keyword argument gets its value: a literal, or the list built. *)
BindKeyword ==
    /\ pc = "args"
    /\ ~AllBound
    /\ NextKeyword \in ListKeywords => Len(items) = Len(NextValue)
    /\ kwargs' = [k \in Bound \cup {NextKeyword} |->
                    IF k \in Bound THEN kwargs[k]
                    ELSE IF k \in ListKeywords THEN items ELSE NextValue]
    /\ items' = <<>>
    /\ UNCHANGED <<rev, pc, calls, log>>

(* A call that is made only for some descriptors.                          *)
CallSetupIfGevent ==
    /\ pc = "args"
    /\ AllBound
    /\ "gevent" \in Range(kwargs["install_requires"])
    /\ pc' = "done"
    /\ calls' = calls + 1
    /\ log' = Append(log, kwargs)
    /\ UNCHANGED <<rev, kwargs, items>>

(* setup(...): the keyword arguments become the distribution's metadata.   *)
CallSetup ==
    /\ pc = "args"
    /\ AllBound
    /\ pc' = "done"
    /\ calls' = calls + 1
    /\ log' = Append(log, kwargs)
    /\ UNCHANGED <<rev, kwargs, items>>

(* The next revision of the descriptor is checked out and evaluated.       *)
NextRevision ==
    /\ pc = "done"
    /\ rev < NumRevisions
    /\ rev' = rev + 1
    /\ pc' = "import"
    /\ kwargs' = NoKwargs
    /\ items' = <<>>
    /\ calls' = 0
    /\ UNCHANGED log

Next ==
    \/ Import
    \/ EvalItem
    \/ BindKeyword
    \/ CallSetup
    \/ NextRevision

Spec == Init /\ [][Next]_vars

-----------------------------------------------------------------------------
(* What the claims speak of.                                               *)

(* The metadata registered by the evaluation that has just finished.       *)
dist == log[Len(log)]

Done == pc = "done"

(* The revision whose evaluation produced log[i].                          *)
RevOf(i) == rev - Len(log) + i - (IF Done THEN 0 ELSE 1)

SrcDone == Done /\ rev = SrcRevision

-----------------------------------------------------------------------------
(* Dotted-number reading of a version: "1.0.18" is <<1, 0, 18>>.           *)

DigitValue(c) ==
    CASE c = "0" -> 0 [] c = "1" -> 1 [] c = "2" -> 2 [] c = "3" -> 3
      [] c = "4" -> 4 [] c = "5" -> 5 [] c = "6" -> 6 [] c = "7" -> 7
      [] c = "8" -> 8 [] c = "9" -> 9

RECURSIVE SplitDots(_, _, _)
SplitDots(s, cur, acc) ==
    IF s = <<>> THEN Append(acc, cur)
    ELSE IF Head(s) = "." THEN SplitDots(Tail(s), 0, Append(acc, cur))
    ELSE SplitDots(Tail(s), cur * 10 + DigitValue(Head(s)), acc)

Components(v) == SplitDots(v, 0, <<>>)

(* Component-wise comparison, the first differing component deciding; a    *)
(* proper prefix is the smaller.                                           *)
RECURSIVE SeqLess(_, _)
SeqLess(a, b) ==
    IF b = <<>> THEN FALSE
    ELSE IF a = <<>> THEN TRUE
    ELSE IF Head(a) # Head(b) THEN Head(a) < Head(b)
    ELSE SeqLess(Tail(a), Tail(b))

VersionLess(v, w) == SeqLess(Components(v), Components(w))

V_1_0_14 == <<"1", ".", "0", ".", "1", "4">>
V_1_0_18 == <<"1", ".", "0", ".", "1", "8">>
V_0_13 == <<"0", ".", "1", "3">>
V_1_1_8 == <<"1", ".", "1", ".", "8">>

ListedVersions == <<V_1_0_14, V_1_0_18, V_0_13, V_1_1_8>>

ListedRequires ==
    <<{"coloredlogs", "pyyaml"},
      {"coloredlogs", "pyyaml", "gevent"},
      {"pyyaml"},
      {"coloredlogs", "pyyaml", "gevent"}>>

Steps == 1..(Len(log) - 1)

-----------------------------------------------------------------------------
(* C1: the name passed to setup() is 'ajenti-dev-multitool' in every       *)
(* revision evaluated, the one of the source tree included, and no step    *)
(* from a revision to the next changes it.                                 *)
C1_NameConstant ==
    /\ \A i \in 1..Len(log) : log[i]["name"] = "ajenti-dev-multitool"
    /\ \A i \in Steps : log[i + 1]["name"] = log[i]["name"]

C1_Witness ==
    /\ SrcDone
    /\ dist["name"] = "ajenti-dev-multitool"
    /\ Len(log) = 2

(* C2: scripts holds exactly one entry in every revision evaluated, and    *)
(* that entry is the package name 'ajenti-dev-multitool'.                  *)
C2_ScriptsSingle ==
    \A i \in 1..Len(log) :
        /\ Len(log[i]["scripts"]) = 1
        /\ log[i]["scripts"][1] = "ajenti-dev-multitool"
        /\ log[i]["scripts"][1] = log[i]["name"]

C2_Witness ==
    /\ SrcDone
    /\ dist["scripts"] = <<"ajenti-dev-multitool">>
    /\ Len(log) = 1

(* C3: position by position, the revisions carry the versions 1.0.14,      *)
(* 1.0.18, 0.13, 1.1.8 with the dependency sets {coloredlogs, pyyaml},     *)
(* {coloredlogs, pyyaml, gevent}, {pyyaml}, {coloredlogs, pyyaml, gevent}; *)
(* the descriptor of version 1.0.18 declares exactly the three.            *)
C3_RequiresByRevision ==
    \A i \in 1..Len(log) :
        /\ log[i]["version"] = ListedVersions[RevOf(i)]
        /\ Range(log[i]["install_requires"]) = ListedRequires[RevOf(i)]
        /\ log[i]["version"] = V_1_0_18 =>
              /\ RevOf(i) = SrcRevision
              /\ Range(log[i]["install_requires"]) =
                    {"coloredlogs", "pyyaml", "gevent"}

C3_Witness ==
    /\ Len(log) = NumRevisions
    /\ log[SrcRevision]["version"] = V_1_0_18
    /\ Cardinality(Range(log[SrcRevision]["install_requires"])) = 3

(* C4: the version of every revision evaluated is one of the four strings  *)
(* 1.0.14, 1.0.18, 0.13, 1.1.8, and the source tree's is 1.0.18.           *)
C4_VersionListed ==
    /\ \A i \in 1..Len(log) : log[i]["version"] \in Range(ListedVersions)
    /\ SrcDone => dist["version"] = V_1_0_18

C4_Witness ==
    /\ SrcDone
    /\ dist["version"] = V_1_0_18
    /\ Len(log) = 1
    /\ calls = 1

C6_VersionsNonMonotonic ==
    /\ \A i \in Steps :
          /\ VersionLess(log[i + 1]["version"], log[i]["version"])
                <=> RevOf(i) = SrcRevision
          /\ VersionLess(log[i]["version"], log[i + 1]["version"])
                <=> RevOf(i) # SrcRevision
    /\ Len(log) = NumRevisions =>
          /\ ~ \A i \in Steps :
                 VersionLess(log[i]["version"], log[i + 1]["version"])
          /\ VersionLess(V_0_13, V_1_0_18) /\ log[2]["version"] = V_1_0_18
          /\ log[3]["version"] = V_0_13

C6_Witness ==
    /\ Len(log) = NumRevisions
    /\ VersionLess(log[3]["version"], log[2]["version"])
    /\ VersionLess(log[1]["version"], log[2]["version"])
    /\ VersionLess(log[3]["version"], log[4]["version"])

C8_RequiresShape ==
    \A i \in 1..Len(log) :
        LET req == Range(log[i]["install_requires"]) IN
        /\ req # {}
        /\ "pyyaml" \in req
        /\ "gevent" \in req => "coloredlogs" \in req

C8_Witness ==
    /\ SrcDone
    /\ "gevent" \in Range(dist["install_requires"])
    /\ "coloredlogs" \in Range(dist["install_requires"])
    /\ Len(log) = SrcRevision

====
